---- MODULE Spec2Model ----
(***************************************************************************)
(* Route resampling and fuel-stop planning of the `route` app              *)
(* (src/route/utils.py, src/route/views.py).                               *)
(*                                                                         *)
(* Coordinates.  Every point of a run lies on one meridian and is given    *)
(* by its latitude measured in miles along that meridian, so that          *)
(* haversine_distance of two points is the absolute difference of their    *)
(* latitudes.  A route may walk up and down the meridian, so the length    *)
(* of its path and the distance between its ends differ.                   *)
(*                                                                         *)
(* Numbers.  Prices are in cents per gallon, except in the runs of         *)
(* route_details, whose response rounds the total: there prices and costs  *)
(* are in millionths of a dollar.  cost_threshold is in tenths (1 is       *)
(* 0.1).  Python's list index k is the index k + 1 here.                   *)
(*                                                                         *)
(* External calls.  In the specifications of extract_waypoints,            *)
(* find_fuel_stops and route_details requests.get/post and                 *)
(* geocode_location succeed; in those of get_current_state and             *)
(* make_request_with_retry they may fail.  The value                       *)
(* geocode_location returns is never read by find_fuel_stops (it reads     *)
(* station["lat"], station["lng"]), and get_current_state reads the        *)
(* coordinate of a reference location, held here in its `lat` field.       *)
(***************************************************************************)
EXTENDS Integers, Sequences, FiniteSets

VARIABLES
    pc,                     \* position of the run in the code
    coordinates,            \* extract_waypoints: the decoded route geometry
    spacing_miles,          \* extract_waypoints: parameter
    idx,                    \* extract_waypoints: loop index i of line 87 (1-based)
    cumulative_distance,    \* extract_waypoints: local
    last_added_point,       \* extract_waypoints: local
    waypoints,              \* extract_waypoints: result; find_fuel_stops: parameter
    distance,               \* find_fuel_stops: parameter (total route distance)
    fuel_data,              \* find_fuel_stops: parameter (station catalog)
    locations,              \* find_fuel_stops: parameter (reference locations)
    vehicle_range,          \* find_fuel_stops: parameter
    search_radius,          \* find_fuel_stops: parameter
    cost_threshold,         \* find_fuel_stops: parameter, in tenths
    i,                      \* find_fuel_stops: loop index of line 155 (1-based)
    stops,                  \* find_fuel_stops: local, the result
    remaining_range,        \* find_fuel_stops: local
    total_distance_covered, \* find_fuel_stops: local
    nearby_stations,        \* find_fuel_stops: local of the current iteration
    refuel_now,             \* find_fuel_stops: local of the current iteration
    raised,                 \* the exception that ended the run, or "none"
    stop_log,               \* history: for each stop, its waypoint and trigger
    returned_state,         \* get_current_state: the value returned
    max_retries,            \* make_request_with_retry: parameter
    retries,                \* make_request_with_retry: local
    call_log,               \* history: the outcome of each func() of line 35
    slept,                  \* history: the argument of each time.sleep of line 42
    result,                 \* make_request_with_retry: which call's value is returned
    total_cost,             \* route_details: local of line 92
    response                \* route_details: "data" of the response, lines 108-110

vars == <<pc, coordinates, spacing_miles, idx, cumulative_distance,
          last_added_point, waypoints, distance, fuel_data, locations,
          vehicle_range, search_radius, cost_threshold, i, stops,
          remaining_range, total_distance_covered, nearby_stations,
          refuel_now, raised, stop_log, returned_state, max_retries, retries,
          call_log, slept, result, total_cost, response>>

extractVars == <<coordinates, spacing_miles, idx, cumulative_distance,
                 last_added_point>>

planInputs == <<distance, fuel_data, locations, vehicle_range, search_radius,
                cost_threshold>>

planLocals == <<i, stops, remaining_range, total_distance_covered,
                nearby_stations, refuel_now, stop_log>>

retryVars == <<max_retries, retries, call_log, slept, result>>

summaryVars == <<total_cost, response>>

viewVars == <<returned_state, retryVars, summaryVars>>

----------------------------------------------------------------------------
(* Bounds of the enumerated inputs.                                        *)

MaxCoord == 1        \* latitudes handed to find_fuel_stops are 0..MaxCoord
MaxRouteCoord == 2   \* latitudes of a route geometry are 0..MaxRouteCoord
MaxPoints == 4       \* points of a route geometry
MaxSpacing == 3      \* spacing_miles is 0..MaxSpacing
MaxWaypoints == 2    \* waypoints handed to find_fuel_stops
MaxStations == 2     \* rows of fuel_data
MaxLocations == 1    \* rows of locations

Coords == 0..MaxCoord
RouteCoords == 0..MaxRouteCoord
States == {"A", "B"}
Prices == {300, 320}
NoPoint == -1        \* None of line 85
NoState == "None"    \* None of line 123

\* Sequences over S of length lo..hi.
SeqsOf(S, lo, hi) == UNION {[1..n -> S] : n \in lo..hi}

----------------------------------------------------------------------------
(* haversine_distance, utils.py 11-21, on one meridian.                    *)

HaversineDistance(lat1, lat2) ==
    IF lat1 <= lat2 THEN lat2 - lat1 ELSE lat1 - lat2

----------------------------------------------------------------------------
(* extract_waypoints, utils.py 82-107.                                     *)

\* Line 98: the test that emits a waypoint.
SpacingReachedFlipped(cumulative, spacing) == cumulative <= spacing

SpacingReached(cumulative, spacing) == cumulative >= spacing

\* Line 100: the running total after a waypoint was emitted.
CumulativeAfterEmitKept(cumulative) == cumulative

CumulativeAfterEmit(cumulative) == 0

\* Line 104: the test guarding the append of the endpoint.
EndpointMissingNever(last, final) == FALSE

EndpointMissing(last, final) == last # final

\* Lines 83-85: the state before the loop.
ExtractEntry(coords, spacing) ==
    /\ coordinates = coords
    /\ spacing_miles = spacing
    /\ idx = 2
    /\ cumulative_distance = 0
    /\ last_added_point = NoPoint
    /\ waypoints = <<>>

\* Lines 87-101: one iteration of the loop.
ExtractStep ==
    /\ pc = "extract_loop"
    /\ idx <= Len(coordinates)
    /\ LET prev_point == coordinates[idx - 1]
           curr_point == coordinates[idx]
           segment_distance == HaversineDistance(prev_point, curr_point)
           cumulative == cumulative_distance + segment_distance
       IN  IF SpacingReached(cumulative, spacing_miles)
           THEN /\ waypoints' = Append(waypoints, curr_point)
                /\ cumulative_distance' = CumulativeAfterEmit(cumulative)
                /\ last_added_point' = curr_point
           ELSE /\ cumulative_distance' = cumulative
                /\ UNCHANGED <<waypoints, last_added_point>>
    /\ idx' = idx + 1
    /\ UNCHANGED <<pc, coordinates, spacing_miles, raised>>
    /\ UNCHANGED planInputs
    /\ UNCHANGED viewVars
    /\ UNCHANGED planLocals

\* Lines 103-107: the endpoint, and the return.
ExtractEndpoint ==
    /\ pc = "extract_loop"
    /\ idx > Len(coordinates)
    /\ waypoints' =
          IF EndpointMissing(last_added_point, coordinates[Len(coordinates)])
          THEN Append(waypoints, coordinates[Len(coordinates)])
          ELSE waypoints
    /\ pc' = "extracted"
    /\ UNCHANGED extractVars
    /\ UNCHANGED viewVars
    /\ UNCHANGED raised
    /\ UNCHANGED planInputs
    /\ UNCHANGED planLocals

----------------------------------------------------------------------------
(* get_current_state, utils.py 110-132.                                    *)

Infinity == -1       \* float('inf') of line 122; every distance is >= 0

\* Line 128: the test that takes a reference location as the closest so far.
CloserOrEqual(d, min_distance) == min_distance = Infinity \/ d <= min_distance

Closer(d, min_distance) == min_distance = Infinity \/ d < min_distance

\* Lines 125-130: the scan from row k on.
RECURSIVE ScanLocations(_, _, _, _, _)
ScanLocations(lat1, locs, k, min_distance, current_state) ==
    IF k > Len(locs)
    THEN current_state
    ELSE LET d == HaversineDistance(lat1, locs[k].lat)
         IN  IF Closer(d, min_distance)
             THEN ScanLocations(lat1, locs, k + 1, d, locs[k].State)
             ELSE ScanLocations(lat1, locs, k + 1, min_distance, current_state)

GetCurrentState(waypoint, locs) ==
    ScanLocations(waypoint, locs, 1, Infinity, NoState)

----------------------------------------------------------------------------
(* find_fuel_stops, utils.py 135-218.                                      *)
(* A row of fuel_data is [State, lat, RetailPrice]; its row number stands  *)
(* for its "Truckstop Name" and "Address".                                 *)

\* Line 173: the test that keeps a station as a candidate.
WithinRadius(distance_to_station, radius) == distance_to_station <= radius

\* Lines 163-179: the candidates of `state` around `waypoint`, rows k.. of
\* the catalog, in catalog order.
RECURSIVE CollectNearby(_, _, _, _, _)
CollectNearby(waypoint, catalog, state, radius, k) ==
    IF k > Len(catalog)
    THEN <<>>
    ELSE LET station == catalog[k]
             distance_to_station == HaversineDistance(waypoint, station.lat)
             rest == CollectNearby(waypoint, catalog, state, radius, k + 1)
         IN  IF station.State = state /\ WithinRadius(distance_to_station, radius)
             THEN <<[FuelStation |-> k,
                     PricePerGallon |-> station.RetailPrice,
                     DistanceToStation |-> distance_to_station]>> \o rest
             ELSE rest

\* Line 183: the order of the sort key (price, distance).
KeyLessByDistance(x, y) ==
    \/ x.DistanceToStation < y.DistanceToStation
    \/ /\ x.DistanceToStation = y.DistanceToStation
       /\ x.PricePerGallon < y.PricePerGallon

KeyLess(x, y) ==
    \/ x.PricePerGallon < y.PricePerGallon
    \/ /\ x.PricePerGallon = y.PricePerGallon
       /\ x.DistanceToStation < y.DistanceToStation

\* x put into the sorted s behind every element that is not greater.
RECURSIVE InsertSorted(_, _)
InsertSorted(s, x) ==
    IF s = <<>> THEN <<x>>
    ELSE IF KeyLess(x, Head(s)) THEN <<x>> \o s
    ELSE <<Head(s)>> \o InsertSorted(Tail(s), x)

\* Lines 182-184: sorted(), a stable sort.
RECURSIVE Sorted(_)
Sorted(s) ==
    IF s = <<>> THEN <<>>
    ELSE InsertSorted(Sorted(SubSeq(s, 1, Len(s) - 1)), s[Len(s)])

\* Lines 160-184: nearby_stations of a waypoint.
NearbyStations(waypoint, catalog, locs, radius) ==
    Sorted(CollectNearby(waypoint, catalog, GetCurrentState(waypoint, locs),
                         radius, 1))

\* Line 188: the indices of waypoints[i + 1:i + 3].
FutureIndices(wps, k) == {j \in (k + 1)..(k + 2) : j <= Len(wps)}

\* Lines 188-194: line 194 reads the name future_station, which nothing
\* binds, so the body of the loop of line 191 raises NameError the first
\* time it runs: when a future waypoint's state has a row in the catalog.
LookaheadRaises(wps, k, catalog, locs) ==
    \E j \in FutureIndices(wps, k) :
        \E r \in 1..Len(catalog) :
            catalog[r].State = GetCurrentState(wps[j], locs)

\* Lines 187-197: future_stations at line 199.  Line 197 is only reached
\* through line 194, so the list is empty whenever line 199 is reached.
FutureStations(wps, k, catalog, locs, radius) == <<>>

RECURSIVE SumSeq(_)
SumSeq(s) == IF s = <<>> THEN 0 ELSE Head(s) + SumSeq(Tail(s))

\* Lines 199 and 205: price < future_avg_cost * (1 - cost_threshold), with
\* the threshold ct in tenths.  With no future price the average is inf and
\* the product is inf for ct < 1, nan for ct = 1, -inf for ct > 1.
BelowFutureCost(price, future_stations, ct) ==
    IF future_stations = <<>>
    THEN ct < 10
    ELSE 10 * price * Len(future_stations) < SumSeq(future_stations) * (10 - ct)

\* Line 203: low range forces refueling (0.2 * vehicle_range as a fifth).
ForcedRefuel(rr, distance_to_finish, vr) ==
    rr < distance_to_finish /\ 5 * rr < vr

\* Line 205: early refuel for cost savings.
CostRefuel(nearby, future_stations, ct) ==
    /\ nearby # <<>>
    /\ BelowFutureCost(nearby[1].PricePerGallon, future_stations, ct)

\* Line 209: the guard of the refuel.
StopMade(refuel, nearby) == refuel /\ nearby # <<>>

\* Lines 209-212: remaining_range after the refuel, if any.
RangeAfterRefuelUnguarded(refuel, nearby, rr, vr) == IF refuel THEN vr ELSE rr

RangeAfterRefuel(refuel, nearby, rr, vr) ==
    IF StopMade(refuel, nearby) THEN vr ELSE rr

\* Lines 210-211: the stop list after the refuel.
AppendAllNearby(list, nearby) == list \o nearby

AppendBestStop(list, nearby) == Append(list, nearby[1])

\* Lines 151-153: the state before the loop.
PlanEntry ==
    /\ i = 1
    /\ stops = <<>>
    /\ remaining_range = vehicle_range
    /\ total_distance_covered = 0
    /\ nearby_stations = <<>>
    /\ refuel_now = FALSE
    /\ stop_log = <<>>

\* No response has been prepared.
NoResponse == [status |-> "none", total_cost |-> 0, number_of_stops |-> 0]

\* views.py 32: the state before the loop of make_request_with_retry.
RetryEntry ==
    /\ retries = 0
    /\ call_log = <<>>
    /\ slept = <<>>
    /\ result = 0

\* get_current_state, make_request_with_retry and the response of
\* route_details have not run.
NotCalled ==
    /\ returned_state = NoState
    /\ max_retries = 0
    /\ RetryEntry
    /\ total_cost = 0
    /\ response = NoResponse

\* Lines 155-212: one iteration up to the refuel, or the NameError.
Decide ==
    /\ pc = "plan_loop"
    /\ i <= Len(waypoints)
    /\ LET waypoint == waypoints[i]
           distance_to_finish == distance - total_distance_covered
           nearby == NearbyStations(waypoint, fuel_data, locations, search_radius)
           future_stations ==
               FutureStations(waypoints, i, fuel_data, locations, search_radius)
           forced == ForcedRefuel(remaining_range, distance_to_finish, vehicle_range)
           refuel == forced \/ CostRefuel(nearby, future_stations, cost_threshold)
       IN  IF LookaheadRaises(waypoints, i, fuel_data, locations)
           THEN /\ pc' = "raised"
                /\ raised' = "NameError"
                /\ nearby_stations' = nearby
                /\ UNCHANGED <<stops, remaining_range, refuel_now, stop_log>>
           ELSE /\ pc' = "plan_update"
                /\ nearby_stations' = nearby
                /\ refuel_now' = refuel
                /\ IF StopMade(refuel, nearby)
                   THEN /\ stops' = AppendBestStop(stops, nearby)
                        /\ stop_log' = Append(stop_log,
                               [waypoint |-> i, forced |-> forced,
                                range |-> remaining_range,
                                to_finish |-> distance_to_finish])
                   ELSE UNCHANGED <<stops, stop_log>>
                /\ remaining_range' =
                      RangeAfterRefuel(refuel, nearby, remaining_range, vehicle_range)
                /\ UNCHANGED raised
    /\ UNCHANGED <<i, total_distance_covered, waypoints>>
    /\ UNCHANGED extractVars
    /\ UNCHANGED viewVars
    /\ UNCHANGED planInputs

\* Line 215: remaining_range after the leg to the next waypoint.
RangeAfterAdvanceClamped(rr, radius) == IF rr < radius THEN 0 ELSE rr - radius

RangeAfterAdvance(rr, radius) == rr - radius

\* Lines 214-216: the end of an iteration.
Advance ==
    /\ pc = "plan_update"
    /\ remaining_range' = RangeAfterAdvance(remaining_range, search_radius)
    /\ total_distance_covered' = total_distance_covered + search_radius
    /\ i' = i + 1
    /\ pc' = "plan_loop"
    /\ UNCHANGED <<stops, nearby_stations, refuel_now, stop_log, raised, waypoints>>
    /\ UNCHANGED extractVars
    /\ UNCHANGED viewVars
    /\ UNCHANGED planInputs

\* Line 218.
Return ==
    /\ pc = "plan_loop"
    /\ i > Len(waypoints)
    /\ pc' = "returned"
    /\ UNCHANGED <<raised, waypoints>>
    /\ UNCHANGED extractVars
    /\ UNCHANGED viewVars
    /\ UNCHANGED planInputs
    /\ UNCHANGED planLocals

----------------------------------------------------------------------------
(* find_fuel_stops on its own: every argument drawn from a bounded set.    *)

FuelRows == [State : States, lat : {0, MaxCoord}, RetailPrice : Prices]
LocationRows == [State : States, lat : {0, MaxCoord}]
VehicleRanges == {1}
SearchRadii == {0, 1}
CostThresholds == {1}
Distances == {1, 3}

Init ==
    /\ pc = "plan_loop"
    /\ coordinates = <<>>
    /\ spacing_miles = 0
    /\ idx = 2
    /\ cumulative_distance = 0
    /\ last_added_point = NoPoint
    /\ waypoints \in SeqsOf(Coords, 0, MaxWaypoints)
    /\ distance \in Distances
    /\ fuel_data \in SeqsOf(FuelRows, 0, MaxStations)
    /\ locations \in SeqsOf(LocationRows, 0, MaxLocations)
    /\ vehicle_range \in VehicleRanges
    /\ search_radius \in SearchRadii
    /\ cost_threshold \in CostThresholds
    /\ raised = "none"
    /\ PlanEntry
    /\ NotCalled

Next == Decide \/ Advance \/ Return

Spec == Init /\ [][Next]_vars

----------------------------------------------------------------------------
(* find_fuel_stops with any configuration a caller can pass: the values    *)
(* include a zero vehicle_range and a zero and a negative search_radius.   *)

MaxConfigStations == 1   \* rows of fuel_data
ConfigVehicleRanges == {0, 1}
ConfigSearchRadii == {-1, 0, 2}
ConfigDistances == {3}

InitConfig ==
    /\ pc = "plan_loop"
    /\ coordinates = <<>>
    /\ spacing_miles = 0
    /\ idx = 2
    /\ cumulative_distance = 0
    /\ last_added_point = NoPoint
    /\ waypoints \in SeqsOf(Coords, 0, MaxWaypoints)
    /\ distance \in ConfigDistances
    /\ fuel_data \in SeqsOf(FuelRows, 0, MaxConfigStations)
    /\ locations \in SeqsOf(LocationRows, 0, MaxLocations)
    /\ vehicle_range \in ConfigVehicleRanges
    /\ search_radius \in ConfigSearchRadii
    /\ cost_threshold \in CostThresholds
    /\ raised = "none"
    /\ PlanEntry
    /\ NotCalled

SpecConfig == InitConfig /\ [][Next]_vars

----------------------------------------------------------------------------
(* get_current_state on its own, utils.py 110-132: the waypoint is         *)
(* waypoints[1], the reference locations are `locations`.                  *)

MaxReferences == 3   \* rows of locations handed to get_current_state

ReferenceRows == [State : States, lat : RouteCoords]

\* Lines 121-132: every geocode_location of line 126 succeeds.
Resolve ==
    /\ pc = "resolve"
    /\ returned_state' = GetCurrentState(waypoints[1], locations)
    /\ pc' = "resolved"
    /\ UNCHANGED <<raised, waypoints, retryVars, summaryVars>>
    /\ UNCHANGED extractVars
    /\ UNCHANGED planInputs
    /\ UNCHANGED planLocals

\* Lines 125-126, utils.py 44 and 46: the geocode_location of some row
\* raises, which ends get_current_state.
ResolveGeocodeFails ==
    /\ pc = "resolve"
    /\ locations # <<>>
    /\ \E e \in {"ValueError", "Exception"} : raised' = e
    /\ pc' = "raised"
    /\ UNCHANGED <<waypoints, viewVars>>
    /\ UNCHANGED extractVars
    /\ UNCHANGED planInputs
    /\ UNCHANGED planLocals

InitResolve ==
    /\ pc = "resolve"
    /\ coordinates = <<>>
    /\ spacing_miles = 0
    /\ idx = 2
    /\ cumulative_distance = 0
    /\ last_added_point = NoPoint
    /\ \E w \in RouteCoords : waypoints = <<w>>
    /\ locations \in SeqsOf(ReferenceRows, 0, MaxReferences)
    /\ distance = 0
    /\ fuel_data = <<>>
    /\ vehicle_range = 0
    /\ search_radius = 0
    /\ cost_threshold = 0
    /\ raised = "none"
    /\ PlanEntry
    /\ NotCalled

NextResolve == Resolve \/ ResolveGeocodeFails

SpecResolve == InitResolve /\ [][NextResolve]_vars

----------------------------------------------------------------------------
(* make_request_with_retry, views.py 31-47.  An outcome of func() is "ok"  *)
(* or the exception it raises; the HTTPError of status 429 carries the     *)
(* Retry-After header of its response: absent, a number of seconds, or an  *)
(* HTTP date.                                                              *)

MaxRetries == 3      \* max_retries is 0..MaxRetries
BackoffFactor == 1   \* backoff_factor=1 of line 31

RequestExceptions == {"HTTPError 429", "HTTPError 500", "ConnectionError"}
OtherExceptions == {"ValueError", "Exception"}
Failures == RequestExceptions \cup OtherExceptions

RetryAfterHeaders ==
    { [form |-> "absent", seconds |-> 0],
      [form |-> "seconds", seconds |-> 0],
      [form |-> "seconds", seconds |-> 7],
      [form |-> "seconds", seconds |-> -1],
      [form |-> "date", seconds |-> 0] }

RECURSIVE Pow2(_)
Pow2(n) == IF n = 0 THEN 1 ELSE 2 * Pow2(n - 1)

\* Lines 37-38: the exceptions the loop catches and retries.
RetryableAnyRequestError(e) == e \in RequestExceptions

Retryable(e) == e \in RequestExceptions /\ e = "HTTPError 429"

\* Line 40: int() of the header raises ValueError on a text that is not
\* an integer, such as an HTTP date.
RetryAfterParses(header) == header.form # "date"

\* Line 40: the header as an integer, or the exponential default.
RetryAfter(header, n) ==
    IF header.form = "absent" THEN BackoffFactor * Pow2(n) ELSE header.seconds

\* Line 42: time.sleep raises ValueError on a negative length.
SleepRaises(seconds) == seconds < 0

\* Lines 33-36: func() returns, and its value is returned.
CallReturns ==
    /\ pc = "retry_loop"
    /\ retries < max_retries
    /\ call_log' = Append(call_log, "ok")
    /\ result' = Len(call_log) + 1
    /\ pc' = "retry_returned"
    /\ UNCHANGED <<max_retries, retries, slept, raised>>
    /\ UNCHANGED <<waypoints, returned_state, summaryVars>>
    /\ UNCHANGED extractVars
    /\ UNCHANGED planInputs
    /\ UNCHANGED planLocals

\* Lines 33-43: func() raises an exception the loop retries.
CallRateLimited ==
    /\ pc = "retry_loop"
    /\ retries < max_retries
    /\ \E e \in Failures, header \in RetryAfterHeaders :
          /\ Retryable(e)
          /\ call_log' = Append(call_log, e)
          /\ IF ~RetryAfterParses(header)
             THEN /\ raised' = "ValueError of int"
                  /\ pc' = "retry_raised"
                  /\ UNCHANGED <<retries, slept>>
             ELSE IF SleepRaises(RetryAfter(header, retries))
             THEN /\ raised' = "ValueError of sleep"
                  /\ pc' = "retry_raised"
                  /\ UNCHANGED <<retries, slept>>
             ELSE /\ slept' = Append(slept, RetryAfter(header, retries))
                  /\ retries' = retries + 1
                  /\ UNCHANGED <<pc, raised>>
    /\ UNCHANGED <<max_retries, result>>
    /\ UNCHANGED <<waypoints, returned_state, summaryVars>>
    /\ UNCHANGED extractVars
    /\ UNCHANGED planInputs
    /\ UNCHANGED planLocals

\* Lines 33-37 and 44-46: func() raises anything else, which propagates.
CallFails ==
    /\ pc = "retry_loop"
    /\ retries < max_retries
    /\ \E e \in Failures :
          /\ ~Retryable(e)
          /\ call_log' = Append(call_log, e)
          /\ raised' = e
    /\ pc' = "retry_raised"
    /\ UNCHANGED <<max_retries, retries, slept, result>>
    /\ UNCHANGED <<waypoints, returned_state, summaryVars>>
    /\ UNCHANGED extractVars
    /\ UNCHANGED planInputs
    /\ UNCHANGED planLocals

\* Lines 33 and 47: the retries are used up.
RetryExhausted ==
    /\ pc = "retry_loop"
    /\ retries >= max_retries
    /\ raised' = "Exception: Request failed"
    /\ pc' = "retry_raised"
    /\ UNCHANGED retryVars
    /\ UNCHANGED <<waypoints, returned_state, summaryVars>>
    /\ UNCHANGED extractVars
    /\ UNCHANGED planInputs
    /\ UNCHANGED planLocals

InitRetry ==
    /\ pc = "retry_loop"
    /\ coordinates = <<>>
    /\ spacing_miles = 0
    /\ idx = 2
    /\ cumulative_distance = 0
    /\ last_added_point = NoPoint
    /\ waypoints = <<>>
    /\ distance = 0
    /\ fuel_data = <<>>
    /\ locations = <<>>
    /\ vehicle_range = 0
    /\ search_radius = 0
    /\ cost_threshold = 0
    /\ raised = "none"
    /\ PlanEntry
    /\ returned_state = NoState
    /\ max_retries \in 0..MaxRetries
    /\ RetryEntry
    /\ total_cost = 0
    /\ response = NoResponse

NextRetry == CallReturns \/ CallRateLimited \/ CallFails \/ RetryExhausted

SpecRetry == InitRetry /\ [][NextRetry]_vars

----------------------------------------------------------------------------
(* extract_waypoints on its own, from the decoded geometry on.             *)

InitExtract ==
    /\ pc = "extract_loop"
    /\ \E coords \in SeqsOf(RouteCoords, 1, MaxPoints), spacing \in 0..MaxSpacing :
          ExtractEntry(coords, spacing)
    /\ distance = 0
    /\ fuel_data = <<>>
    /\ locations = <<>>
    /\ vehicle_range = 0
    /\ search_radius = 0
    /\ cost_threshold = 0
    /\ raised = "none"
    /\ PlanEntry
    /\ NotCalled

NextExtract == ExtractStep \/ ExtractEndpoint

SpecExtract == InitExtract /\ [][NextExtract]_vars

----------------------------------------------------------------------------
(* route_details, views.py 63-112, on a straight route of TripLengths     *)
(* miles given by a point every TripSteps miles, from the decoded          *)
(* geometry on.                                                            *)
(* fuel_data and locations are the tables loaded at views.py 20-21.        *)

SpacingArg == 25          \* spacing_miles=25
VehicleRangeArg == 500    \* vehicle_range=500
SearchRadiusArg == 10     \* search_radius=10
CostThresholdArg == 1     \* cost_threshold=0.1

\* Lines 72-82: route_distance, and the call of find_fuel_stops.
CallFindFuelStops ==
    /\ pc = "extracted"
    /\ distance' = HaversineDistance(coordinates[1], coordinates[Len(coordinates)])
    /\ vehicle_range' = VehicleRangeArg
    /\ search_radius' = SearchRadiusArg
    /\ cost_threshold' = CostThresholdArg
    /\ i' = 1
    /\ stops' = <<>>
    /\ remaining_range' = VehicleRangeArg
    /\ total_distance_covered' = 0
    /\ pc' = "plan_loop"
    /\ UNCHANGED <<fuel_data, locations, waypoints, nearby_stations, refuel_now,
                   stop_log, raised>>
    /\ UNCHANGED extractVars
    /\ UNCHANGED viewVars

FillGallons == 50        \* the 50 of line 92
CostUnitsPerMill == 1000 \* millionths of a dollar in the third decimal of line 108

\* Line 92: the sum of PricePerGallon * 50 over the stops.
RECURSIVE TotalCost(_)
TotalCost(list) ==
    IF list = <<>> THEN 0
    ELSE Head(list).PricePerGallon * FillGallons + TotalCost(Tail(list))

\* Line 108: round(total_cost, 3) of a cost >= 0, to the nearest third
\* decimal, a tie going to the even one.
TruncateTo3(cost) == cost - (cost % CostUnitsPerMill)

RoundTo3(cost) ==
    LET down == cost - (cost % CostUnitsPerMill)
        rest == cost % CostUnitsPerMill
    IN  IF 2 * rest < CostUnitsPerMill THEN down
        ELSE IF 2 * rest > CostUnitsPerMill THEN down + CostUnitsPerMill
        ELSE IF (down \div CostUnitsPerMill) % 2 = 0 THEN down
        ELSE down + CostUnitsPerMill

\* Lines 84-112: the map is drawn, and the response is prepared from the
\* stop list find_fuel_stops returned.
Respond ==
    /\ pc = "returned"
    /\ total_cost' = TotalCost(stops)
    /\ response' = [status |-> "success",
                    total_cost |-> RoundTo3(TotalCost(stops)),
                    number_of_stops |-> Len(stops)]
    /\ pc' = "responded"
    /\ UNCHANGED <<raised, waypoints, returned_state, retryVars>>
    /\ UNCHANGED extractVars
    /\ UNCHANGED planInputs
    /\ UNCHANGED planLocals

TripLengths == {300, 1000}
TripSteps == {10, 25}
TripPrices == {3007333, 3200000}   \* 3.007333 and 3.20 dollars a gallon
TripFuelRows == [State : States, lat : {37, 400}, RetailPrice : TripPrices]
\* The reference locations: none, one city, or a city of each state with
\* the border between the states at mile 50.
TripLocationTables ==
    { <<>>,
      <<[State |-> "A", lat |-> 500]>>,
      <<[State |-> "A", lat |-> 0], [State |-> "B", lat |-> 100]>> }

\* The straight route of `length` miles with a point every `step` miles.
StraightRoute(length, step) == [k \in 1..(length \div step + 1) |-> (k - 1) * step]

InitTrip ==
    /\ pc = "extract_loop"
    /\ \E length \in TripLengths, step \in TripSteps :
          ExtractEntry(StraightRoute(length, step), SpacingArg)
    /\ fuel_data \in SeqsOf(TripFuelRows, 0, MaxStations)
    /\ locations \in TripLocationTables
    /\ distance = 0
    /\ vehicle_range = 0
    /\ search_radius = 0
    /\ cost_threshold = 0
    /\ raised = "none"
    /\ PlanEntry
    /\ NotCalled

NextTrip ==
    \/ ExtractStep
    \/ ExtractEndpoint
    \/ CallFindFuelStops
    \/ Decide
    \/ Advance
    \/ Return
    \/ Respond

SpecTrip == InitTrip /\ [][NextTrip]_vars

----------------------------------------------------------------------------
(* Properties of find_fuel_stops, checked under Spec.                      *)

\* The candidates of the waypoint the loop is at.
NearbyHere ==
    NearbyStations(waypoints[i], fuel_data, locations, search_radius)

\* The prices of the stations within search_radius of the next two
\* waypoints, each in its waypoint's region.
RECURSIVE PricesOf(_)
PricesOf(s) ==
    IF s = <<>> THEN <<>> ELSE <<Head(s).PricePerGallon>> \o PricesOf(Tail(s))

PooledNext(j) ==
    IF j <= Len(waypoints)
    THEN PricesOf(NearbyStations(waypoints[j], fuel_data, locations, search_radius))
    ELSE <<>>

PooledFuturePrices == PooledNext(i + 1) \o PooledNext(i + 2)

\* The forced trigger: remaining_range < min(distance_to_finish, 0.2 * vehicle_range).
ForcedHere ==
    /\ remaining_range < distance - total_distance_covered
    /\ 5 * remaining_range < vehicle_range

\* The opportunistic trigger against the pooled lookahead average.
OpportunisticAt(nearby, pooled) ==
    /\ nearby # <<>>
    /\ BelowFutureCost(nearby[1].PricePerGallon, pooled, cost_threshold)

\* A step that enters the iteration of the waypoint the loop is at.
AtWaypoint == pc = "plan_loop" /\ i <= Len(waypoints)

\* C1: remaining_range is reset to vehicle_range exactly when a stop is
\* appended: a step that appends a stop leaves remaining_range equal to
\* vehicle_range, and a step that appends none never brings remaining_range
\* back to vehicle_range from another value.
C1_ResetExactlyOnStop ==
    [][/\ Len(stops') > Len(stops) => remaining_range' = vehicle_range
       /\ (Len(stops') = Len(stops) /\ remaining_range # vehicle_range)
             => remaining_range' # vehicle_range]_vars

\* C1, its case: a stop was just appended and the tank is full.
C1_Witness ==
    /\ pc = "plan_update"
    /\ Len(stops) = 1
    /\ StopMade(refuel_now, nearby_stations)
    /\ remaining_range = vehicle_range

\* C2: at every waypoint the loop processes, a stop is appended if and only
\* if there is a nearby candidate and the forced trigger or the
\* opportunistic trigger (cheapest nearby price below the lookahead average
\* times 1 - cost_threshold) holds.
C2_StopIffTriggered ==
    [][AtWaypoint =>
          ((Len(stops') = Len(stops) + 1)
             <=> /\ NearbyHere # <<>>
                 /\ \/ ForcedHere
                    \/ OpportunisticAt(NearbyHere, PooledFuturePrices))]_vars

\* C2 restricted to the iterations that reach line 201.
C2_StopIffTriggeredWhenDecided ==
    [][(AtWaypoint /\ pc' = "plan_update") =>
          ((Len(stops') = Len(stops) + 1)
             <=> /\ NearbyHere # <<>>
                 /\ \/ ForcedHere
                    \/ OpportunisticAt(NearbyHere, PooledFuturePrices))]_vars

\* C3: an appended stop is a station of the waypoint's resolved region
\* within search_radius (inclusive) of the waypoint, and no other such
\* station is cheaper, or as cheap and closer.
C3_CheapestThenClosest ==
    [][Len(stops') > Len(stops) =>
          LET stop == stops'[Len(stops')]
              waypoint == waypoints[i]
              region == GetCurrentState(waypoint, locations)
              InReach(r) ==
                  /\ fuel_data[r].State = region
                  /\ HaversineDistance(waypoint, fuel_data[r].lat) <= search_radius
          IN  /\ stop.FuelStation \in 1..Len(fuel_data)
              /\ InReach(stop.FuelStation)
              /\ stop.PricePerGallon = fuel_data[stop.FuelStation].RetailPrice
              /\ stop.DistanceToStation =
                    HaversineDistance(waypoint, fuel_data[stop.FuelStation].lat)
              /\ \A r \in 1..Len(fuel_data) :
                    InReach(r) =>
                       /\ fuel_data[r].RetailPrice >= stop.PricePerGallon
                       /\ fuel_data[r].RetailPrice = stop.PricePerGallon
                             => HaversineDistance(waypoint, fuel_data[r].lat)
                                   >= stop.DistanceToStation]_vars

\* C3, its case: two candidates at the same distance, the one priced 3.20
\* first in the catalog, and the stop is the one priced 3.00.
C3_Witness ==
    /\ pc = "plan_update"
    /\ Len(nearby_stations) = 2
    /\ nearby_stations[1].DistanceToStation = nearby_stations[2].DistanceToStation
    /\ fuel_data[1].RetailPrice = 320
    /\ fuel_data[2].RetailPrice = 300
    /\ Len(stops) = 1
    /\ stops[1].FuelStation = 2
    /\ stops[1].PricePerGallon = 300

\* C4: when the forced trigger holds at a waypoint with no candidate in
\* range, the run does not go on silently: it ends with an InfeasibleRefuel
\* error.  (The value find_fuel_stops returns is the list of stops alone,
\* which has no place for a strandedRisk flag.)
C4_InfeasibleRefuelSignalled ==
    [][(AtWaypoint /\ ForcedHere /\ NearbyHere = <<>>)
          => (pc' = "raised" /\ raised' = "InfeasibleRefuel")]_vars

\* C6: remaining_range is decremented and total_distance_covered is
\* incremented only in an iteration that made no stop, and by the distance
\* between the previous waypoint and this one.
C6_AdvanceByActualDistance ==
    [][(total_distance_covered' # total_distance_covered
           \/ remaining_range' < remaining_range) =>
          /\ ~StopMade(refuel_now, nearby_stations)
          /\ i >= 2 =>
                LET advanced == HaversineDistance(waypoints[i - 1], waypoints[i])
                IN  /\ total_distance_covered' = total_distance_covered + advanced
                    /\ remaining_range' = remaining_range - advanced]_vars

----------------------------------------------------------------------------
(* Scenarios of route_details, checked under SpecTrip.                     *)

Terminal == pc \in {"returned", "raised"}

TripLength == coordinates[Len(coordinates)] - coordinates[1]

\* A station lies within 10 miles of a waypoint near mile 400.
StationNearMile400 ==
    \E r \in 1..Len(fuel_data), j \in 1..Len(waypoints) :
        /\ waypoints[j] \in 375..425
        /\ HaversineDistance(waypoints[j], fuel_data[r].lat) <= 10

\* At no waypoint the cheapest nearby station is priced below the lookahead
\* average times 1 - cost_threshold.
NeverOpportunistic ==
    \A j \in 1..Len(waypoints) :
        ~OpportunisticAt(
            NearbyStations(waypoints[j], fuel_data, locations, search_radius),
            PooledNext(j + 1) \o PooledNext(j + 2))

\* C5: on the 1000-mile route with a station within 10 miles of a waypoint
\* near mile 400, the run ends with a stop list holding a forced stop, made
\* with remaining_range < 100 while distance_to_finish > 100.
C5_ForcedStopOnLongTrip ==
    (Terminal /\ TripLength = 1000 /\ StationNearMile400) =>
       \E k \in 1..Len(stop_log) :
           /\ stop_log[k].forced
           /\ stop_log[k].range < 100
           /\ stop_log[k].to_finish > 100

\* C5, the runs that do not raise: on these trips the forced trigger holds
\* at no waypoint.
C5_ForcedNeverHoldsOnTrip == AtWaypoint => ~ForcedHere

\* C7: on the 300-mile route, when at no waypoint the cheapest nearby
\* station is priced below the lookahead average by the cost threshold,
\* find_fuel_stops returns an empty stop list.
C7_NoRefuelOnShortTrip ==
    (Terminal /\ TripLength = 300 /\ NeverOpportunistic) =>
       (pc = "returned" /\ stops = <<>>)

\* C7 restricted to the runs that return.
C7_NoRefuelWhenReturned ==
    (pc = "returned" /\ TripLength = 300 /\ NeverOpportunistic) => stops = <<>>

----------------------------------------------------------------------------
(* Properties of extract_waypoints, checked under SpecExtract.             *)

\* The length of the path through the points of s.
RECURSIVE PathLength(_)
PathLength(s) ==
    IF Len(s) <= 1 THEN 0
    ELSE HaversineDistance(s[1], s[2]) + PathLength(Tail(s))

CeilDiv(a, b) == (a + b - 1) \div b

FinalPoint == coordinates[Len(coordinates)]

\* C8: the last waypoint returned is the final point of the geometry.
C8_DestinationLast ==
    pc = "extracted" =>
       /\ waypoints # <<>>
       /\ waypoints[Len(waypoints)] = FinalPoint

\* C8, its case: waypoints were emitted on the way, the last of them before
\* the end of the route, and the final point was appended behind them.
C8_Witness ==
    /\ pc = "extracted"
    /\ Len(waypoints) >= 2
    /\ cumulative_distance > 0
    /\ waypoints[Len(waypoints)] = FinalPoint

\* C9 as stated: for spacing S > 0 the number of waypoints lies in
\* [ceil(L/S), ceil(L/S) + 1], L the length of the path.
C9_CountWithinCeil ==
    (pc = "extracted" /\ spacing_miles > 0) =>
       LET c == CeilDiv(PathLength(coordinates), spacing_miles)
       IN  c <= Len(waypoints) /\ Len(waypoints) <= c + 1

\* C9 as amended: for spacing S > 0 the number of waypoints is at least 1
\* and at most floor(L/S) + 1, hence at most ceil(L/S) + 1.
C9_CountAtMostFloorPlusOne ==
    (pc = "extracted" /\ spacing_miles > 0) =>
       /\ 1 <= Len(waypoints)
       /\ Len(waypoints) <= (PathLength(coordinates) \div spacing_miles) + 1
       /\ Len(waypoints) <= CeilDiv(PathLength(coordinates), spacing_miles) + 1

\* C9, its case: a route longer than twice the spacing with fewer than
\* ceil(L/S) waypoints.
C9_Witness ==
    /\ pc = "extracted"
    /\ spacing_miles > 0
    /\ PathLength(coordinates) > 2 * spacing_miles
    /\ Len(waypoints) < CeilDiv(PathLength(coordinates), spacing_miles)

\* C10: on a geometry shorter than the spacing no waypoint is emitted on
\* the way, the running total is the length of the path walked so far
\* (a repeated point adds nothing), and the result is the destination alone.
C10_ShortRouteOneWaypoint ==
    PathLength(coordinates) < spacing_miles =>
       /\ pc = "extract_loop" =>
             /\ waypoints = <<>>
             /\ cumulative_distance = PathLength(SubSeq(coordinates, 1, idx - 1))
       /\ pc = "extracted" => waypoints = <<FinalPoint>>

\* C10, its case: a short geometry with a repeated point, fully walked.
C10_Witness ==
    /\ pc = "extracted"
    /\ 0 < PathLength(coordinates)
    /\ PathLength(coordinates) < spacing_miles
    /\ \E k \in 1..(Len(coordinates) - 1) : coordinates[k] = coordinates[k + 1]
    /\ waypoints = <<FinalPoint>>

----------------------------------------------------------------------------
(* The stop list (under SpecTrip) and the counters and configuration       *)
(* (under SpecConfig) of find_fuel_stops.                                  *)

\* The stop list grew by exactly one stop, appended at its end.
OneStopAppended ==
    /\ Len(stops') = Len(stops) + 1
    /\ SubSeq(stops', 1, Len(stops)) = stops

\* The waypoints of the stops made so far, in the order of the stop list.
StopWaypointsIncrease(log) ==
    \A k \in 1..Len(log), m \in 1..Len(log) :
        k < m => log[k].waypoint < log[m].waypoint

\* C11: the stop list keeps the route order.  A step leaves the stop list
\* alone or appends exactly one stop at its end, and it appends only while
\* a waypoint is processed, the stop being that waypoint's; the waypoints
\* of the stops increase strictly along the list, the list is never longer
\* than the waypoint list, and nothing is added once the loop is over.
C11_StopsInRouteOrder ==
    [][ /\ stops' # stops =>
             /\ AtWaypoint
             /\ OneStopAppended
             /\ Len(stop_log') = Len(stops')
             /\ stop_log'[Len(stop_log')].waypoint = i
        /\ StopWaypointsIncrease(stop_log')
        /\ Len(stops') <= Len(waypoints')
        /\ (pc = "plan_loop" /\ i > Len(waypoints)) => stops' = stops
        /\ Terminal => stops' = stops ]_vars

\* C11: a run returned with a stop made at its first waypoint and later
\* waypoints processed after it.
C11_Witness ==
    /\ pc = "returned"
    /\ Len(stops) = 1
    /\ stop_log[1].waypoint = 1
    /\ Len(waypoints) > 2

\* C12: total_distance_covered never decreases from one step to the next,
\* whatever the waypoints, the catalog and the configuration.
C12_DistanceCoveredNeverDecreases ==
    [][total_distance_covered' >= total_distance_covered]_vars

\* C12 for the configurations with search_radius >= 0.
C12_NeverDecreasesForRadiusAtLeastZero ==
    [][search_radius >= 0 =>
          total_distance_covered' >= total_distance_covered]_vars

\* A configuration with a non-positive vehicle_range or search_radius.
InvalidConfiguration == vehicle_range <= 0 \/ search_radius <= 0

\* C15: with an invalid configuration the run is rejected before it
\* starts: it never leaves the entry of the loop except by raising, so no
\* iteration of the planner executes and nothing is returned.
C15_InvalidConfigurationRejected ==
    InvalidConfiguration =>
        \/ pc = "plan_loop" /\ i = 1
        \/ pc = "raised" /\ i = 1 /\ raised = "ConfigurationError"

\* The 1-based waypoint of the most recent stop, 1 when there is none.
LastStopWaypoint ==
    IF stop_log = <<>> THEN 1 ELSE stop_log[Len(stop_log)].waypoint

\* C20: whenever the loop is about to process waypoint i (1-based here),
\* total_distance_covered is (i - 1) * search_radius and remaining_range
\* is vehicle_range - search_radius * (i - j), j the waypoint of the most
\* recent stop (the first waypoint when there is none), whatever the
\* distances between the waypoints.
C20_CountersTrackIterations ==
    pc = "plan_loop" =>
        /\ total_distance_covered = (i - 1) * search_radius
        /\ remaining_range =
              vehicle_range - search_radius * (i - LastStopWaypoint)

\* C20: the second of two coincident waypoints is about to be processed,
\* search_radius has been charged for the leg of length 0 and
\* remaining_range is below 0.
C20_Witness ==
    /\ AtWaypoint
    /\ i = 2
    /\ waypoints[1] = waypoints[2]
    /\ total_distance_covered = search_radius
    /\ search_radius > 0
    /\ remaining_range < 0

----------------------------------------------------------------------------
(* The lookahead of find_fuel_stops, checked under Spec.                   *)

\* C17: at every waypoint the loop processes, the lookahead is computed
\* without ending the run, and the prices it averages are those of the
\* stations within search_radius of the next two waypoints, each in its
\* waypoint's region (none, and an infinite average, when there are none).
C17_LookaheadIsPooledMean ==
    [][AtWaypoint =>
          /\ pc' = "plan_update"
          /\ FutureStations(waypoints, i, fuel_data, locations, search_radius)
                = PooledFuturePrices]_vars

\* C19: at a waypoint with a nearby candidate and with no station within
\* search_radius of either of the next two waypoints, a stop is appended.
C19_StopWhenNothingAhead ==
    [][(AtWaypoint /\ NearbyHere # <<>> /\ PooledFuturePrices = <<>>) =>
          Len(stops') = Len(stops) + 1]_vars

\* C19 restricted to the iterations that reach line 201.
C19_StopWhenNothingAheadWhenDecided ==
    [][(AtWaypoint /\ pc' = "plan_update"
          /\ NearbyHere # <<>> /\ PooledFuturePrices = <<>>) =>
          Len(stops') = Len(stops) + 1]_vars

----------------------------------------------------------------------------
(* get_current_state, checked under SpecResolve.                           *)

\* The distance from the waypoint to reference location k.
ReferenceDistance(k) == HaversineDistance(waypoints[1], locations[k].lat)

\* Reference location k is at minimum distance, and no earlier one is.
FirstClosest(k) ==
    /\ \A m \in 1..Len(locations) : ReferenceDistance(k) <= ReferenceDistance(m)
    /\ \A m \in 1..(k - 1) : ReferenceDistance(k) < ReferenceDistance(m)

\* C13: the state get_current_state returns is the State of a reference
\* location at minimum distance from the waypoint, the first such location
\* in input order when several are equally close.
C13_ClosestFirstInOrder ==
    (pc = "resolved" /\ locations # <<>>) =>
        \E k \in 1..Len(locations) :
            FirstClosest(k) /\ returned_state = locations[k].State

\* C13: two reference locations of different states are equally close, no
\* other is closer, and the state of the earlier one was returned.
C13_Witness ==
    /\ pc = "resolved"
    /\ \E k \in 1..Len(locations), m \in 1..Len(locations) :
          /\ k < m
          /\ FirstClosest(k)
          /\ ReferenceDistance(m) = ReferenceDistance(k)
          /\ locations[m].State # locations[k].State
          /\ returned_state = locations[k].State

----------------------------------------------------------------------------
(* make_request_with_retry, checked under SpecRetry.                       *)

\* Every func() so far ended in the HTTPError of status 429.
AllRateLimited == \A k \in 1..Len(call_log) : call_log[k] = "HTTPError 429"

\* func() was called at most max_retries times, and a returned value is
\* that of the first call that succeeded, which is the last call made.
BoundedAndFirstSuccess ==
    /\ Len(call_log) <= max_retries
    /\ pc = "retry_returned" =>
          /\ result = Len(call_log)
          /\ call_log[result] = "ok"
          /\ \A k \in 1..(result - 1) : call_log[k] # "ok"

\* C14: func() is called at most max_retries times, the value of the first
\* successful call is returned with no call after it, and a run in which
\* every call ended in the 429 error raises the final failure of line 47
\* after exactly max_retries calls.
C14_BoundedRetries ==
    /\ BoundedAndFirstSuccess
    /\ (pc = "retry_raised" /\ AllRateLimited) =>
          /\ Len(call_log) = max_retries
          /\ raised = "Exception: Request failed"

\* C14 for the runs in which line 40 could read every Retry-After header
\* and line 42 could sleep.
C14_BoundedRetriesWhenHintUsable ==
    /\ BoundedAndFirstSuccess
    /\ (pc = "retry_raised" /\ AllRateLimited
          /\ raised \notin {"ValueError of int", "ValueError of sleep"}) =>
          /\ Len(call_log) = max_retries
          /\ raised = "Exception: Request failed"

\* C18: a func() that raises anything but the 429 error ends the run with
\* that exception at once: the retry counter is not advanced, nothing is
\* slept, and func() is not called again.
C18_OtherFailurePropagatesAtOnce ==
    [][ /\ \A e \in Failures \ {"HTTPError 429"} :
             call_log' = Append(call_log, e) =>
                 /\ pc' = "retry_raised"
                 /\ raised' = e
                 /\ retries' = retries
                 /\ slept' = slept
        /\ pc = "retry_raised" => call_log' = call_log ]_vars

\* C18: the first call raised a request error other than 429, which is
\* the exception of the run, after one call, no retry and no sleep.
C18_Witness ==
    /\ pc = "retry_raised"
    /\ call_log = <<"ConnectionError">>
    /\ raised = "ConnectionError"
    /\ retries = 0
    /\ slept = <<>>
    /\ max_retries > 1

----------------------------------------------------------------------------
(* The response of route_details, checked under SpecTrip.                  *)

\* The sum of the stops' prices times the fill quantity.
ExactCost == SumSeq(PricesOf(stops)) * FillGallons

\* C16: the cost of the response is the sum over the stops of price times
\* 50 gallons and its number of stops is the length of the stop list; an
\* empty stop list gives 0 and 0.
C16_TotalIsExactSum ==
    pc = "responded" =>
        /\ response.total_cost = ExactCost
        /\ response.number_of_stops = Len(stops)
        /\ stops = <<>> =>
              (response.total_cost = 0 /\ response.number_of_stops = 0)

\* C16 as the code has it: total_cost of line 92 is the exact sum, the
\* cost of the response is that sum at its nearest third decimal, and the
\* number of stops is the length of the stop list; an empty stop list
\* gives 0 and 0.
C16_TotalIsRoundedSum ==
    pc = "responded" =>
        /\ total_cost = ExactCost
        /\ response.total_cost % CostUnitsPerMill = 0
        /\ 2 * (response.total_cost - ExactCost) <= CostUnitsPerMill
        /\ 2 * (ExactCost - response.total_cost) <= CostUnitsPerMill
        /\ response.number_of_stops = Len(stops)
        /\ stops = <<>> =>
              (response.total_cost = 0 /\ response.number_of_stops = 0)

\* C16: a response for one stop whose cost has more than three decimals.
C16_Witness ==
    /\ pc = "responded"
    /\ Len(stops) = 1
    /\ response.number_of_stops = 1
    /\ total_cost % CostUnitsPerMill # 0
    /\ response.total_cost > total_cost
====
